---- MODULE Spec2Model ----
(***************************************************************************)
(* A model of pkg/sys/proc/proc.go: the procfs readers (CommandLine,       *)
(* Cgroups, ContainerID, Stat, UniqueID), the lazily parsed ProcessStatus  *)
(* record and the once-initialised boot identifier.                        *)
(*                                                                         *)
(* Strings are sequences of one-character strings.  Unsigned 64-bit        *)
(* numbers are four 16-bit limbs, least significant first, so that the     *)
(* range checks of strconv and the little-endian bytes of encoding/binary  *)
(* are computed at their real width.                                       *)
(***************************************************************************)
EXTENDS Integers, Sequences, FiniteSets, TLC

VARIABLES
    ps,         \* the ProcessStatus record returned by the last Stat (or absent)
    kin,        \* ghost: the kernel's values behind the status line that ps was read from
    last,       \* ghost: the last completed call: operation, input, outcome, value, work done
    parses,     \* ghost: per field of ps, how many times it was derived from its raw token
    bootID,     \* package variable bootID
    onceDone,   \* bootIDOnce.done
    onceLock,   \* bootIDOnce.m: 0 when free, else the caller holding it
    procFS,     \* package variable procFS (set by FS())
    bootFile,   \* environment: outcome of reading sys/kernel/random/boot_id
    bootReads,  \* ghost: how many times the boot_id file was read
    pc,         \* per concurrent BootID caller: where it is
    data,       \* per concurrent BootID caller: the bytes its ReadFile returned
    ret,        \* per concurrent BootID caller: the string it returned
    aborted,    \* the process ended (glog.Fatal, unrecovered panic)
    calls,      \* ghost: how many reads of per-process files the caller has asked for
    pair        \* two (boot id, start stack, start time) triples and their tokens
vars == <<ps, kin, last, parses, bootID, onceDone, onceLock, procFS, bootFile,
          bootReads, pc, data, ret, aborted, calls, pair>>

----------------------------------------------------------------------------
(* Bounds *)

\* number of concurrent callers of BootID
NumCallers == 3
\* how many times one field of a record may be parsed before the model stops counting
MaxParses == 2
\* how many calls that read a per-process file one behaviour makes
MaxCalls == 2

----------------------------------------------------------------------------
(* Strings *)

NUL == "NUL"
Space == " "
NL == "\n"
TAB == "\t"
CR == "\r"

\* F applied to the value of e: e is evaluated once and F sees its value
Let(e, F(_)) == CHOOSE y \in {F(x) : x \in {e}} : TRUE

\* unicode.IsSpace on the characters of the model
IsSpace(c) == c \in {Space, NL, TAB, CR}

\* the sequence s[from..to-1], Go's s[from:to] with 0-based from and to
Slice(s, from, to) == SubSeq(s, from + 1, to)

\* index (0-based) of the first occurrence of character c in s at or after i, or -1
IndexFrom(s, c, i) ==
    Let({j \in i..(Len(s) - 1) : s[j + 1] = c},
        LAMBDA hits : IF hits = {} THEN -1 ELSE CHOOSE j \in hits : \A k \in hits : j <= k)

HasPrefix(s, p) == Len(s) >= Len(p) /\ SubSeq(s, 1, Len(p)) = p

\* strings.Split(s, sep) for a one-character separator: always Count(sep)+1 pieces
RECURSIVE Split(_, _)
Split(s, sep) ==
    Let(IndexFrom(s, sep, 0), LAMBDA i :
        IF i < 0 THEN <<s>>
        ELSE Let(Slice(s, i + 1, Len(s)), LAMBDA rest :
                 <<Slice(s, 0, i)>> \o Split(rest, sep)))

\* strings.Fields: the maximal runs of non-space characters.  FieldsIn gives the
\* runs of s[lo..hi]; a run that crosses the middle is joined from its two halves.
JoinHalves(s, mid, l, r) ==
    IF ~IsSpace(s[mid]) /\ ~IsSpace(s[mid + 1])
    THEN SubSeq(l, 1, Len(l) - 1) \o <<l[Len(l)] \o r[1]>> \o Tail(r)
    ELSE l \o r
RECURSIVE FieldsIn(_, _, _)
FieldsIn(s, lo, hi) ==
    IF lo > hi THEN <<>>
    ELSE IF lo = hi THEN (IF IsSpace(s[lo]) THEN <<>> ELSE <<(<<s[lo]>>)>>)
    ELSE Let((lo + hi) \div 2, LAMBDA mid :
             Let(FieldsIn(s, lo, mid), LAMBDA l :
                 Let(FieldsIn(s, mid + 1, hi), LAMBDA r : JoinHalves(s, mid, l, r))))
Fields(s) == FieldsIn(s, 1, Len(s))

\* strings.Trim with a cutset (a set of characters): what lies between the first
\* and the last character outside the cutset
Trim(s, cut) ==
    Let({i \in 1..Len(s) : s[i] \notin cut}, LAMBDA keep :
        IF keep = {} THEN <<>>
        ELSE SubSeq(s, CHOOSE i \in keep : \A k \in keep : i <= k,
                       CHOOSE i \in keep : \A k \in keep : i >= k))

\* strings.TrimSpace
TrimSpace(s) == Trim(s, {Space, NL, TAB, CR})

----------------------------------------------------------------------------
(* Numbers at their real width *)

\* one limb holds 16 bits
Limb == 256 * 256
HalfLimb == 128 * 256
Zero64 == <<0, 0, 0, 0>>

\* n * base + d on four limbs; carry is what does not fit in 64 bits
MulAdd(n, base, d) ==
    Let(n[1] * base + d, LAMBDA t1 :
    Let(n[2] * base + (t1 \div Limb), LAMBDA t2 :
    Let(n[3] * base + (t2 \div Limb), LAMBDA t3 :
    Let(n[4] * base + (t3 \div Limb), LAMBDA t4 :
        [val |-> <<t1 % Limb, t2 % Limb, t3 % Limb, t4 % Limb>>,
         carry |-> t4 \div Limb]))))

\* the characters strconv takes as digits, in the order of their values
DigitChars == <<"0", "1", "2", "3", "4", "5", "6", "7", "8", "9",
                "a", "b", "c", "d", "e", "f", "g", "h", "i", "j", "k", "l", "m",
                "n", "o", "p", "q", "r", "s", "t", "u", "v", "w", "x", "y", "z">>
UpperChars == <<"A", "B", "C", "D", "E", "F", "G", "H", "I", "J", "K", "L", "M",
                "N", "O", "P", "Q", "R", "S", "T", "U", "V", "W", "X", "Y", "Z">>

\* strconv's lower(c)
Lower(c) ==
    Let({i \in 1..Len(UpperChars) : UpperChars[i] = c}, LAMBDA at :
        IF at = {} THEN c ELSE DigitChars[10 + (CHOOSE i \in at : TRUE)])

\* the value of a digit character, or -1 for a character that is no digit in any base
DigitVal(c) ==
    Let(Lower(c), LAMBDA l :
        Let({i \in 1..Len(DigitChars) : DigitChars[i] = l}, LAMBDA at :
            IF at = {} THEN -1 ELSE (CHOOSE i \in at : TRUE) - 1))

\* does the 64-bit value fit in bitSize (32 or 64) bits
FitsUnsigned(n, bitSize) == bitSize = 64 \/ (n[3] = 0 /\ n[4] = 0)

\* the digit loop of strconv.ParseUint from character i on, n the value so far:
\* "syntax", "range" or "ok" with the value
RECURSIVE ParseDigits(_, _, _, _, _)
ParseDigits(s, i, base, bitSize, n) ==
    IF i > Len(s) THEN [err |-> "ok", val |-> n]
    ELSE Let(DigitVal(s[i]), LAMBDA d :
             IF d < 0 \/ d >= base THEN [err |-> "syntax", val |-> Zero64]
             ELSE Let(MulAdd(n, base, d), LAMBDA m :
                      IF m.carry > 0 \/ ~FitsUnsigned(m.val, bitSize)
                      THEN [err |-> "range", val |-> Zero64]
                      ELSE ParseDigits(s, i + 1, base, bitSize, m.val)))

\* strconv.ParseUint(s, base, bitSize) for base 0 (prefix decides) and base 10
ParseUint(s, base, bitSize) ==
    IF s = <<>> THEN [err |-> "syntax", val |-> Zero64]
    ELSE IF base = 0 /\ s[1] = "0" /\ Len(s) >= 3 /\ Lower(s[2]) = "x"
         THEN ParseDigits(s, 3, 16, bitSize, Zero64)
    ELSE IF base = 0 /\ s[1] = "0"
         THEN ParseDigits(s, 2, 8, bitSize, Zero64)
    ELSE ParseDigits(s, 1, 10, bitSize, Zero64)

\* is the magnitude >= 2^(bitSize-1), and is it exactly 2^(bitSize-1)
AtLeastCutoff(n, bitSize) ==
    IF bitSize = 32 THEN n[2] >= HalfLimb \/ n[3] > 0 \/ n[4] > 0
    ELSE n[4] >= HalfLimb
IsCutoff(n, bitSize) ==
    IF bitSize = 32 THEN n = <<0, HalfLimb, 0, 0>> ELSE n = <<0, 0, 0, HalfLimb>>

\* the range check of strconv.ParseInt on the magnitude un that ParseUint gave
SignedOf(neg, un, bitSize) ==
    IF un.err # "ok" THEN [err |-> un.err, neg |-> FALSE, mag |-> Zero64]
    ELSE IF ~neg /\ AtLeastCutoff(un.val, bitSize)
         THEN [err |-> "range", neg |-> FALSE, mag |-> Zero64]
    ELSE IF neg /\ AtLeastCutoff(un.val, bitSize) /\ ~IsCutoff(un.val, bitSize)
         THEN [err |-> "range", neg |-> FALSE, mag |-> Zero64]
    ELSE [err |-> "ok", neg |-> neg /\ un.val # Zero64, mag |-> un.val]

\* strconv.ParseInt(s, base, bitSize): a signed value is a sign and a magnitude
ParseInt(s, base, bitSize) ==
    IF s = <<>> THEN [err |-> "syntax", neg |-> FALSE, mag |-> Zero64]
    ELSE Let(ParseUint(IF s[1] \in {"+", "-"} THEN Tail(s) ELSE s, base, bitSize),
             LAMBDA un : SignedOf(s[1] = "-", un, bitSize))

\* strconv.Atoi(s): ParseInt(s, 10, 0) on a 64-bit int
Atoi(s) == ParseInt(s, 10, 64)

\* the zero value of a signed field
ZeroInt == [neg |-> FALSE, mag |-> Zero64]

\* binary.Write(h, binary.LittleEndian, v) for a uint64 v: its 8 bytes, low byte first
LittleEndian8(n) ==
    <<n[1] % 256, n[1] \div 256, n[2] % 256, n[2] \div 256,
      n[3] % 256, n[3] \div 256, n[4] % 256, n[4] \div 256>>

----------------------------------------------------------------------------
(* Outcomes of a call *)

\* a call returns a value, or ends the process through glog.Fatal or a run-time panic
Returned(v) == [out |-> "ret", val |-> v]
Fatal == [out |-> "fatal", val |-> <<>>]
Panic == [out |-> "panic", val |-> <<>>]

\* the result of fs.ReadFile: the bytes, or an error
ReadOK(bytes) == [err |-> FALSE, bytes |-> bytes]
ReadErr == [err |-> TRUE, bytes |-> <<>>]

----------------------------------------------------------------------------
(* CommandLine *)

\* the loop of CommandLine over the unread bytes: reader.ReadString(0) until it
\* fails (no NUL left) or yields a segment that is only the NUL
RECURSIVE ReadArgs(_, _)
ReadArgs(buf, commandLine) ==
    Let(IndexFrom(buf, NUL, 0), LAMBDA i :
        IF i < 0 THEN commandLine
        ELSE Let(Slice(buf, 0, i + 1), LAMBDA s :
                 IF Len(s) > 1
                 THEN Let(Slice(buf, i + 1, Len(buf)), LAMBDA rest :
                          Let(Append(commandLine, Slice(s, 0, Len(s) - 1)), LAMBDA acc :
                              ReadArgs(rest, acc)))
                 ELSE commandLine))

\* fs.CommandLine given what ReadFile returned; the nil slice is <<>>
CommandLineOf(r) ==
    IF r.err THEN Returned(<<>>) ELSE Returned(ReadArgs(r.bytes, <<>>))

----------------------------------------------------------------------------
(* Cgroups and ContainerID *)

\* bufio.ScanLines: one token per line, a trailing CR dropped, no token for the
\* empty remainder after the last newline
DropCR(line) ==
    IF line # <<>> /\ line[Len(line)] = CR THEN SubSeq(line, 1, Len(line) - 1) ELSE line
RECURSIVE ScanLines(_)
ScanLines(bytes) ==
    IF bytes = <<>> THEN <<>>
    ELSE Let(IndexFrom(bytes, NL, 0), LAMBDA i :
             IF i >= 0
             THEN Let(Slice(bytes, i + 1, Len(bytes)), LAMBDA rest :
                      <<DropCR(Slice(bytes, 0, i))>> \o ScanLines(rest))
             ELSE <<DropCR(bytes)>>)

\* the Cgroup built from the parts of a line and its parsed id, or the end of the process
CgroupOfParts(parts, ID) ==
    IF ID.err # "ok" THEN Fatal
    ELSE IF Len(parts) < 3 THEN Panic
    ELSE Returned([ID |-> [neg |-> ID.neg, mag |-> ID.mag],
                   Controllers |-> Split(parts[2], ","),
                   Path |-> parts[3]])

\* the body of the scanner loop for one line t
CgroupOfLine(t) ==
    Let(Split(t, ":"), LAMBDA parts :
        Let(Atoi(parts[1]), LAMBDA ID : CgroupOfParts(parts, ID)))

\* the scanner loop over the lines still to read
RECURSIVE ScanCgroups(_, _)
ScanCgroups(lines, cgroups) ==
    IF lines = <<>> THEN Returned(cgroups)
    ELSE Let(CgroupOfLine(Head(lines)), LAMBDA c :
             IF c.out # "ret" THEN c
             ELSE Let(Append(cgroups, c.val), LAMBDA acc :
                      Let(Tail(lines), LAMBDA rest : ScanCgroups(rest, acc))))

\* fs.Cgroups given what ReadFile returned
CgroupsOf(r) ==
    IF r.err THEN Returned(<<>>)
    ELSE Let(ScanLines(r.bytes), LAMBDA lines : ScanCgroups(lines, <<>>))

DockerPrefix == <<"/", "d", "o", "c", "k", "e", "r">>

\* the loop of ContainerID over the cgroups from index i on
RECURSIVE FirstDocker(_, _)
FirstDocker(cgroups, i) ==
    IF i > Len(cgroups) THEN Returned(<<>>)
    ELSE IF HasPrefix(cgroups[i].Path, DockerPrefix)
         THEN Let(Split(cgroups[i].Path, "/"), LAMBDA pathParts :
                  IF Len(pathParts) < 3 THEN Panic ELSE Returned(pathParts[3]))
         ELSE FirstDocker(cgroups, i + 1)

\* fs.ContainerID given what ReadFile returned to the Cgroups call it makes
ContainerIDOf(r) ==
    Let(CgroupsOf(r), LAMBDA cgroups :
        IF cgroups.out # "ret" THEN cgroups ELSE FirstDocker(cgroups.val, 1))

----------------------------------------------------------------------------
(* Stat and the ProcessStatus record *)

\* the ProcessStatus that Stat builds: the fields of the line, every cache at its zero value
NewProcessStatus(fields) ==
    [present |-> TRUE, statFields |-> fields, pid |-> ZeroInt, comm |-> <<>>,
     ppid |-> ZeroInt, startTime |-> Zero64, startStack |-> Zero64, uniqueID |-> <<>>]

\* the nil *ProcessStatus
NoProcessStatus ==
    [present |-> FALSE, statFields |-> <<>>, pid |-> ZeroInt, comm |-> <<>>,
     ppid |-> ZeroInt, startTime |-> Zero64, startStack |-> Zero64, uniqueID |-> <<>>]

\* fs.Stat given what ReadFile returned
StatOf(r) ==
    IF r.err THEN NoProcessStatus ELSE NewProcessStatus(Fields(r.bytes))

\* What one accessor call does to a record p: the record afterwards, the outcome,
\* and the fields it derived from their raw tokens (in order, for the ghost counters).
Step(p, res, derived) == [ps |-> p, out |-> res.out, val |-> res.val, derived |-> derived]

\* ps.PID()
PIDOf(p) ==
    IF p.pid # ZeroInt THEN Step(p, Returned(p.pid), <<>>)
    ELSE IF Len(p.statFields) < 1 THEN Step(p, Panic, <<>>)
    ELSE Let(ParseInt(p.statFields[1], 0, 32), LAMBDA i :
             IF i.err # "ok" THEN Step(p, Fatal, <<"pid">>)
             ELSE Let([neg |-> i.neg, mag |-> i.mag], LAMBDA v :
                      Step([p EXCEPT !.pid = v], Returned(v), <<"pid">>)))

\* the characters strings.Trim(.., "()") cuts
ParenCutset == {"(", ")"}

\* ps.Command()
CommandOf(p) ==
    IF Len(p.comm) # 0 THEN Step(p, Returned(p.comm), <<>>)
    ELSE IF Len(p.statFields) < 2 THEN Step(p, Panic, <<>>)
    ELSE Let(Trim(p.statFields[2], ParenCutset), LAMBDA c :
             Step([p EXCEPT !.comm = c], Returned(c), <<"comm">>))

\* ps.ParentPID()
ParentPIDOf(p) ==
    IF p.ppid # ZeroInt THEN Step(p, Returned(p.ppid), <<>>)
    ELSE IF Len(p.statFields) < 4 THEN Step(p, Panic, <<>>)
    ELSE Let(ParseInt(p.statFields[4], 0, 32), LAMBDA i :
             IF i.err # "ok" THEN Step(p, Fatal, <<"ppid">>)
             ELSE Let([neg |-> i.neg, mag |-> i.mag], LAMBDA v :
                      Step([p EXCEPT !.ppid = v], Returned(v), <<"ppid">>)))

\* ps.StartTime()
StartTimeOf(p) ==
    IF p.startTime # Zero64 THEN Step(p, Returned(p.startTime), <<>>)
    ELSE IF Len(p.statFields) < 22 THEN Step(p, Panic, <<>>)
    ELSE Let(ParseUint(p.statFields[22], 0, 64), LAMBDA i :
             IF i.err # "ok" THEN Step(p, Fatal, <<"startTime">>)
             ELSE Step([p EXCEPT !.startTime = i.val], Returned(i.val), <<"startTime">>))

\* ps.StartStack()
StartStackOf(p) ==
    IF p.startStack # Zero64 THEN Step(p, Returned(p.startStack), <<>>)
    ELSE IF Len(p.statFields) < 28 THEN Step(p, Panic, <<>>)
    ELSE Let(ParseUint(p.statFields[28], 0, 64), LAMBDA i :
             IF i.err # "ok" THEN Step(p, Fatal, <<"startStack">>)
             ELSE Step([p EXCEPT !.startStack = i.val], Returned(i.val), <<"startStack">>))

----------------------------------------------------------------------------
(* BootID and UniqueID *)

\* BootID() called with no other caller active: the whole of bootIDOnce.Do.
\* boot is <<onceDone, bootID, procFS>>; file is the environment's boot_id file.
BootIDOf(boot, file) ==
    IF boot[1] THEN [out |-> "ret", val |-> boot[2], boot |-> boot, reads |-> 0]
    ELSE IF ~file.fsOK
         THEN [out |-> "fatal", val |-> <<>>, boot |-> boot, reads |-> 0]
    ELSE IF file.err
         THEN [out |-> "panic", val |-> <<>>, boot |-> <<TRUE, boot[2], "/proc">>, reads |-> 1]
    ELSE Let(TrimSpace(file.bytes), LAMBDA id :
             [out |-> "ret", val |-> id, boot |-> <<TRUE, id, "/proc">>, reads |-> 1])

\* the byte of a character of a boot identifier (digits, lower-case letters, '-')
ByteOf(c) ==
    IF c = "-" THEN 45
    ELSE IF DigitVal(c) < 10 THEN 48 + DigitVal(c)
    ELSE 97 + (DigitVal(c) - 10)
BytesOf(str) == [i \in 1..Len(str) |-> ByteOf(str[i])]

\* binary.Write(h, binary.LittleEndian, v) for a string v: a string is not a
\* fixed-size value, so Write returns an error (which UniqueID drops) and feeds
\* nothing to the hash
BinaryWriteString(str) == <<>>

\* the bytes UniqueID feeds to the hash, in the order of its three binary.Write calls
HashInput(boot, startStack, startTime) ==
    BinaryWriteString(boot) \o LittleEndian8(startStack) \o LittleEndian8(startTime)

\* fmt.Sprintf("%x", h.Sum(nil)): the token stands for the 64 hex characters of the
\* digest; SHA-256 is taken to be injective on the bytes fed to it
Sha256Hex(bytes) == <<[sha256 |-> bytes]>>

\* the token for the three values UniqueID hashes
TokenOf(boot, startStack, startTime) == Sha256Hex(HashInput(boot, startStack, startTime))

\* what UniqueID gives once BootID (b), StartStack (ss) and StartTime (st) have run
UniqueIDAfter(p, b, ss, st) ==
    IF b.out # "ret"
    THEN [ps |-> p, out |-> b.out, val |-> <<>>, derived |-> <<>>,
          boot |-> b.boot, reads |-> b.reads]
    ELSE IF ss.out # "ret"
    THEN [ps |-> ss.ps, out |-> ss.out, val |-> <<>>, derived |-> ss.derived,
          boot |-> b.boot, reads |-> b.reads]
    ELSE IF st.out # "ret"
    THEN [ps |-> st.ps, out |-> st.out, val |-> <<>>,
          derived |-> ss.derived \o st.derived,
          boot |-> b.boot, reads |-> b.reads]
    ELSE Let(TokenOf(b.val, ss.val, st.val), LAMBDA id :
             [ps |-> [st.ps EXCEPT !.uniqueID = id], out |-> "ret", val |-> id,
              derived |-> ss.derived \o st.derived \o <<"uniqueID">>,
              boot |-> b.boot, reads |-> b.reads])

\* ps.UniqueID() with no other caller active
UniqueIDOf(p, boot, file) ==
    IF Len(p.uniqueID) # 0
    THEN [ps |-> p, out |-> "ret", val |-> p.uniqueID, derived |-> <<>>,
          boot |-> boot, reads |-> 0]
    ELSE Let(BootIDOf(boot, file), LAMBDA b :
             IF b.out # "ret" THEN UniqueIDAfter(p, b, b, b)
             ELSE Let(StartStackOf(p), LAMBDA ss :
                      IF ss.out # "ret" THEN UniqueIDAfter(p, b, ss, ss)
                      ELSE Let(StartTimeOf(ss.ps), LAMBDA st :
                               UniqueIDAfter(p, b, ss, st))))

\* fs.UniqueID(pid) as it would be without the test of Stat's result for nil
UniqueIDOfUnchecked(p, boot, file) == UniqueIDOf(p, boot, file)

\* fs.UniqueID(pid) given what ReadFile returned to the Stat call it makes
FsUniqueIDOf(p, boot, file) ==
    IF ~p.present
    THEN [ps |-> p, out |-> "ret", val |-> <<>>, derived |-> <<>>,
          boot |-> boot, reads |-> 0]
    ELSE UniqueIDOf(p, boot, file)

----------------------------------------------------------------------------
(* The environment: what the files under the mount point may hold *)

\* number of fields of a status line as the kernel writes it
KernelFields == 52

\* a decimal pid
Tok42 == <<"4", "2">>
\* hexadecimal with prefix: not decimal, strconv base 0 takes it as 42
TokHex2a == <<"0", "x", "2", "a">>
\* not a number
Tok4x == <<"4", "x">>
\* 2^31 - 1
TokMaxInt32 == <<"2", "1", "4", "7", "4", "8", "3", "6", "4", "7">>
\* 2^31: outside a signed 32-bit field
TokOverInt32 == <<"2", "1", "4", "7", "4", "8", "3", "6", "4", "8">>
\* one
Tok1 == <<"1">>
\* zero
Tok0 == <<"0">>
\* hexadecimal with prefix
TokHex1 == <<"0", "x", "1">>
\* a decimal start time
Tok300 == <<"3", "0", "0">>
\* hexadecimal with prefix
TokHex1f == <<"0", "x", "1", "f">>
\* 2^64 - 1
TokMaxUint64 ==
    <<"1", "8", "4", "4", "6", "7", "4", "4", "0", "7", "3", "7", "0", "9", "5", "5", "1",
      "6", "1", "5">>
\* 2^64: outside an unsigned 64-bit field
TokOverUint64 ==
    <<"1", "8", "4", "4", "6", "7", "4", "4", "0", "7", "3", "7", "0", "9", "5", "5", "1",
      "6", "1", "6">>
\* a decimal start stack address (above 2^32)
TokStack == <<"1", "4", "0", "7", "2", "3", "4", "1", "2", "3", "4", "1", "2", "3", "4">>
\* a leading zero: strconv base 0 takes it as octal
TokOct17 == <<"0", "1", "7">>
\* command names
CommSh == <<"s", "h">>
\* the empty command name
CommEmpty == <<>>
\* a command name with a space
CommSpace == <<"a", Space, "b">>
\* a command name with spaces and a number in it
CommSpaceNum == <<"a", Space, "b", Space, "7", Space, "c">>
\* command names with parentheses
CommParen == <<"f", ")", "x">>
\* a command name that starts with a parenthesis
CommOpen == <<"(", "k">>
\* a status line cut short
ShortStatLine == <<"4", "2", Space, "(", "s", "h", ")", Space, "S", Space, "1", NL>>
\* cmdline contents
CmdLsLa == <<"l", "s", NUL, "-", "l", "a", NUL>>
\* an empty argument in the middle
CmdEmptyMiddle == <<"a", NUL, NUL, "b", NUL>>
\* the last argument ended by end of file
CmdEofEnded == <<"a", NUL, "b">>
\* one empty argument
CmdOnlyNul == <<NUL>>
\* one argument ended by end of file
CmdNoNul == <<"a">>
\* one argument
CmdOne == <<"a", NUL>>
\* cgroup contents
CgTwo == <<"1", ":", "c", ",", "a", ":", "/", NL, "2", ":", "p", ":", "/", "u", NL>>
\* a path with a colon in it
CgColonPath == <<"1", ":", "c", ":", "/", "a", ":", "b", NL>>
\* a docker path
CgDocker ==
    <<"1", ":", "c", ":", "/", "d", "o", "c", "k", "e", "r", "/", "a", "b", "/", "i", NL>>
\* the docker paths come second and third
CgDockerSecond ==
    <<"2", ":", "p", ":", "/", "u", NL, "1", ":", "c", ":", "/", "d", "o", "c", "k", "e",
      "r", "/", "a", "b", NL, "3", ":", "m", ":", "/", "d", "o", "c", "k", "e", "r", "/",
      "z", "z", NL>>
\* the docker parent cgroup itself
CgDockerRoot == <<"1", ":", "c", ":", "/", "d", "o", "c", "k", "e", "r", NL>>
\* a path that only starts like docker
CgDockerLike == <<"1", ":", "c", ":", "/", "d", "o", "c", "k", "e", "r", "x", "/", "y", NL>>
\* a hexadecimal id
CgHexID == <<"0", "x", "1", ":", "c", ":", "/", NL>>
\* an id that is no number
CgBadID == <<"x", ":", "c", ":", "/", NL>>
\* the unified hierarchy: no controllers
CgUnified == <<"0", ":", ":", "/", "u", NL>>
\* a line with one colon
CgShort == <<"1", ":", "c", NL>>
\* the last line ended by end of file
CgNoNewline == <<"1", ":", "c", ":", "/", "u">>
\* boot_id contents
BootRaw == <<"3", "f", "-", "a", "1", NL>>
\* another boot, with spaces around it
BootRawB == <<Space, "7", "c", "-", "0", "2", Space, NL>>


\* Join the strings of a sequence with single spaces
RECURSIVE JoinSpace(_)
JoinSpace(ss) ==
    IF ss = <<>> THEN <<>>
    ELSE IF Len(ss) = 1 THEN ss[1]
    ELSE ss[1] \o <<Space>> \o JoinSpace(Tail(ss))

\* <pid>/stat as the kernel writes it for a process k: field 1 the pid, field 2 the
\* command name in parentheses, field 3 the state, field 4 the parent pid, field 22
\* the start time, field 28 the start stack, every other field 0, then a newline
KernelStatLine(k) ==
    JoinSpace([i \in 1..KernelFields |->
        CASE i = 1 -> k.pid
          [] i = 2 -> <<"(">> \o k.comm \o <<")">>
          [] i = 3 -> <<"S">>
          [] i = 4 -> k.ppid
          [] i = 22 -> k.st
          [] i = 28 -> k.ss
          [] OTHER -> Tok0]) \o <<NL>>

BaseProcess == [pid |-> Tok42, comm |-> CommSh, ppid |-> Tok1, st |-> Tok300, ss |-> TokStack]

PidToks == {Tok42, TokHex2a, Tok4x, TokMaxInt32, TokOverInt32}
Comms == {CommSh, CommEmpty, CommSpace, CommSpaceNum, CommParen, CommOpen}
PpidToks == {Tok1, Tok0, TokHex1}
StToks == {Tok300, Tok0, TokHex1f, TokMaxUint64, TokOverUint64}
SsToks == {TokStack, Tok0, TokOct17}

\* the processes whose status lines the model reads: the base process with one
\* field varied at a time
Processes ==
    {[BaseProcess EXCEPT !.pid = x] : x \in PidToks}
    \cup {[BaseProcess EXCEPT !.comm = x] : x \in Comms}
    \cup {[BaseProcess EXCEPT !.ppid = x] : x \in PpidToks}
    \cup {[BaseProcess EXCEPT !.st = x] : x \in StToks}
    \cup {[BaseProcess EXCEPT !.ss = x] : x \in SsToks}

\* no process behind the content read (or nothing read)
NoProcess == [pid |-> <<>>, comm |-> <<>>, ppid |-> <<>>, st |-> <<>>, ss |-> <<>>]

\* what reading <pid>/stat may give, each with the process behind it
StatInputs ==
    {[kernel |-> TRUE, k |-> k, read |-> ReadOK(KernelStatLine(k))] : k \in Processes}
    \cup {[kernel |-> FALSE, k |-> NoProcess, read |-> r] :
              r \in {ReadOK(<<>>), ReadOK(ShortStatLine), ReadErr}}

\* fs.Stat applied to each of these reads
StatResults ==
    {[kernel |-> in.kernel, k |-> in.k, read |-> in.read, ps |-> StatOf(in.read)] :
        in \in StatInputs}

\* what reading <pid>/cmdline may give
CmdlineReads ==
    {ReadOK(c) : c \in {<<>>, CmdLsLa, CmdEmptyMiddle, CmdEofEnded, CmdOnlyNul,
                        CmdNoNul, CmdOne}} \cup {ReadErr}

\* what reading <pid>/cgroup may give
CgroupReads ==
    {ReadOK(c) : c \in {<<>>, CgTwo, CgColonPath, CgDocker, CgDockerSecond, CgDockerRoot,
                        CgDockerLike, CgHexID, CgBadID, CgUnified, CgShort, CgNoNewline}}
    \cup {ReadErr}

\* what the boot_id file and the sanity checks of FS() may give
BootFiles ==
    {[fsOK |-> TRUE, err |-> FALSE, bytes |-> BootRaw],
     [fsOK |-> TRUE, err |-> FALSE, bytes |-> BootRawB],
     [fsOK |-> TRUE, err |-> TRUE, bytes |-> <<>>],
     [fsOK |-> FALSE, err |-> FALSE, bytes |-> BootRaw]}

----------------------------------------------------------------------------
(* State *)

Callers == 1..NumCallers
FieldNames == {"pid", "comm", "ppid", "startTime", "startStack", "uniqueID"}
NoParses == [f \in FieldNames |-> 0]
NoTriple == [boot |-> <<>>, ss |-> Zero64, st |-> Zero64]
NoPair == [a |-> NoTriple, b |-> NoTriple, ta |-> <<>>, tb |-> <<>>]
NoCall == [op |-> "none", readErr |-> FALSE, input |-> <<>>, out |-> "ret", val |-> <<>>,
           derived |-> 0, reads |-> 0]

\* the state after the package is loaded: nothing read, nothing cached
InitCommon ==
    /\ ps = NoProcessStatus
    /\ kin = [kernel |-> FALSE, k |-> NoProcess]
    /\ last = NoCall
    /\ parses = NoParses
    /\ bootID = <<>>
    /\ onceDone = FALSE
    /\ onceLock = 0
    /\ procFS = "nil"
    /\ bootFile \in BootFiles
    /\ bootReads = 0
    /\ pc = [c \in Callers |-> "idle"]
    /\ data = [c \in Callers |-> <<>>]
    /\ ret = [c \in Callers |-> <<>>]
    /\ aborted = FALSE
    /\ calls = 0

Init == InitCommon /\ pair = NoPair

\* no BootID caller is inside bootIDOnce.Do
Quiet == \A c \in Callers : pc[c] \in {"idle", "done"}

\* the ghost counters after a call that derived the fields in the sequence d
Count(d, f) == Cardinality({i \in 1..Len(d) : d[i] = f})
Bump(d) == [f \in FieldNames |-> parses[f] + Count(d, f)]

----------------------------------------------------------------------------
(* The calls a single goroutine makes *)

\* fs.CommandLine(pid)
CommandLine ==
    /\ ~aborted /\ Quiet /\ calls < MaxCalls
    /\ calls' = calls + 1
    /\ \E r \in CmdlineReads :
         \E res \in {CommandLineOf(r)} :
            last' = [op |-> "CommandLine", readErr |-> r.err, input |-> r.bytes,
                     out |-> res.out, val |-> res.val, derived |-> 0, reads |-> 0]
    /\ UNCHANGED <<ps, kin, parses, bootID, onceDone, onceLock, procFS, bootFile,
                   bootReads, pc, data, ret, aborted, pair>>

\* fs.Cgroups(pid)
Cgroups ==
    /\ ~aborted /\ Quiet /\ calls < MaxCalls
    /\ calls' = calls + 1
    /\ \E r \in CgroupReads :
         \E res \in {CgroupsOf(r)} :
            /\ last' = [op |-> "Cgroups", readErr |-> r.err, input |-> r.bytes,
                        out |-> res.out, val |-> res.val, derived |-> 0, reads |-> 0]
            /\ aborted' = (res.out # "ret")
    /\ UNCHANGED <<ps, kin, parses, bootID, onceDone, onceLock, procFS, bootFile,
                   bootReads, pc, data, ret, pair>>

\* fs.ContainerID(pid)
ContainerID ==
    /\ ~aborted /\ Quiet /\ calls < MaxCalls
    /\ calls' = calls + 1
    /\ \E r \in CgroupReads :
         \E res \in {ContainerIDOf(r)} :
            /\ last' = [op |-> "ContainerID", readErr |-> r.err, input |-> r.bytes,
                        out |-> res.out, val |-> res.val, derived |-> 0, reads |-> 0]
            /\ aborted' = (res.out # "ret")
    /\ UNCHANGED <<ps, kin, parses, bootID, onceDone, onceLock, procFS, bootFile,
                   bootReads, pc, data, ret, pair>>

\* fs.Stat(pid): the caller keeps the record it returns
Stat ==
    /\ ~aborted /\ Quiet /\ calls < MaxCalls
    /\ calls' = calls + 1
    /\ \E in \in StatResults :
         /\ ps' = in.ps
         /\ kin' = [kernel |-> in.kernel, k |-> in.k]
         /\ last' = [op |-> "Stat", readErr |-> in.read.err, input |-> in.read.bytes,
                     out |-> "ret", val |-> <<>>, derived |-> 0, reads |-> 0]
    /\ parses' = NoParses
    /\ UNCHANGED <<bootID, onceDone, onceLock, procFS, bootFile, bootReads, pc, data,
                   ret, aborted, pair>>

\* fs.UniqueID(pid): Stat, then UniqueID on the record, which is then dropped
FsUniqueID ==
    /\ ~aborted /\ Quiet /\ calls < MaxCalls
    /\ calls' = calls + 1
    /\ \E in \in StatResults :
         \E res \in {FsUniqueIDOf(in.ps, <<onceDone, bootID, procFS>>, bootFile)} :
            /\ last' = [op |-> "FsUniqueID", readErr |-> in.read.err,
                        input |-> in.read.bytes, out |-> res.out, val |-> res.val,
                        derived |-> Len(res.derived), reads |-> res.reads]
            /\ aborted' = (res.out # "ret")
            /\ onceDone' = res.boot[1]
            /\ bootID' = res.boot[2]
            /\ procFS' = res.boot[3]
            /\ bootReads' = bootReads + res.reads
    /\ UNCHANGED <<ps, kin, parses, onceLock, bootFile, pc, data, ret, pair>>

\* one accessor call on the record the caller holds
Access(op, res) ==
    /\ ps' = res.ps
    /\ parses' = Bump(res.derived)
    /\ last' = [op |-> op, readErr |-> FALSE, input |-> <<>>, out |-> res.out,
                val |-> res.val, derived |-> Len(res.derived), reads |-> 0]
    /\ aborted' = (res.out # "ret")

\* ps.PID()
PID ==
    /\ ~aborted /\ Quiet /\ ps.present /\ parses["pid"] < MaxParses
    /\ \E res \in {PIDOf(ps)} : Access("PID", res)
    /\ UNCHANGED <<kin, bootID, onceDone, onceLock, procFS, bootFile, bootReads, pc,
                   data, ret, calls, pair>>

\* ps.Command()
Command ==
    /\ ~aborted /\ Quiet /\ ps.present /\ parses["comm"] < MaxParses
    /\ \E res \in {CommandOf(ps)} : Access("Command", res)
    /\ UNCHANGED <<kin, bootID, onceDone, onceLock, procFS, bootFile, bootReads, pc,
                   data, ret, calls, pair>>

\* ps.ParentPID()
ParentPID ==
    /\ ~aborted /\ Quiet /\ ps.present /\ parses["ppid"] < MaxParses
    /\ \E res \in {ParentPIDOf(ps)} : Access("ParentPID", res)
    /\ UNCHANGED <<kin, bootID, onceDone, onceLock, procFS, bootFile, bootReads, pc,
                   data, ret, calls, pair>>

\* ps.StartTime()
StartTime ==
    /\ ~aborted /\ Quiet /\ ps.present /\ parses["startTime"] < MaxParses
    /\ \E res \in {StartTimeOf(ps)} : Access("StartTime", res)
    /\ UNCHANGED <<kin, bootID, onceDone, onceLock, procFS, bootFile, bootReads, pc,
                   data, ret, calls, pair>>

\* ps.StartStack()
StartStack ==
    /\ ~aborted /\ Quiet /\ ps.present /\ parses["startStack"] < MaxParses
    /\ \E res \in {StartStackOf(ps)} : Access("StartStack", res)
    /\ UNCHANGED <<kin, bootID, onceDone, onceLock, procFS, bootFile, bootReads, pc,
                   data, ret, calls, pair>>

\* ps.UniqueID()
UniqueID ==
    /\ ~aborted /\ Quiet /\ ps.present
    /\ \A f \in {"startTime", "startStack", "uniqueID"} : parses[f] < MaxParses
    /\ \E res \in {UniqueIDOf(ps, <<onceDone, bootID, procFS>>, bootFile)} :
          /\ ps' = res.ps
          /\ parses' = Bump(res.derived)
          /\ last' = [op |-> "UniqueID", readErr |-> FALSE, input |-> <<>>,
                      out |-> res.out, val |-> res.val, derived |-> Len(res.derived),
                      reads |-> res.reads]
          /\ aborted' = (res.out # "ret")
          /\ onceDone' = res.boot[1]
          /\ bootID' = res.boot[2]
          /\ procFS' = res.boot[3]
          /\ bootReads' = bootReads + res.reads
    /\ UNCHANGED <<kin, onceLock, bootFile, pc, data, ret, calls, pair>>

\* a caller that stats processes and reads the fields of the records
NextRecord ==
    \/ Stat
    \/ PID \/ Command \/ ParentPID \/ StartTime \/ StartStack \/ UniqueID

SpecRecord == Init /\ [][NextRecord]_vars

\* a caller that asks for command lines, cgroups, container ids, records and unique ids
NextFiles == CommandLine \/ Cgroups \/ ContainerID \/ Stat \/ FsUniqueID

SpecFiles == Init /\ [][NextFiles]_vars

----------------------------------------------------------------------------
(* BootID called from several goroutines at once *)

\* the fast path of sync.Once.Do: the atomic load of done says the work is done
OnceIsDone(done) == done

\* the slow path as it would be without the second look at done: f runs whenever
\* the mutex is won
OnceRunsAlways(done) == TRUE

\* the slow path of sync.Once.Do, with the mutex held: run f only if done is still 0
OnceMustRun(done) == ~done

\* a goroutine calls BootID()
Call(c) ==
    /\ ~aborted /\ pc[c] = "idle"
    /\ pc' = [pc EXCEPT ![c] = "load"]
    /\ UNCHANGED <<ps, kin, last, parses, bootID, onceDone, onceLock, procFS, bootFile,
                   bootReads, data, ret, aborted, calls, pair>>

\* bootIDOnce.Do: the atomic load of done; skip to the return when it is set
Load(c) ==
    /\ ~aborted /\ pc[c] = "load"
    /\ pc' = [pc EXCEPT ![c] = IF OnceIsDone(onceDone) THEN "ret" ELSE "lock"]
    /\ UNCHANGED <<ps, kin, last, parses, bootID, onceDone, onceLock, procFS, bootFile,
                   bootReads, data, ret, aborted, calls, pair>>

\* bootIDOnce.Do: o.m.Lock(), which waits while another goroutine holds the mutex
Lock(c) ==
    /\ ~aborted /\ pc[c] = "lock" /\ onceLock = 0
    /\ onceLock' = c
    /\ pc' = [pc EXCEPT ![c] = "check"]
    /\ UNCHANGED <<ps, kin, last, parses, bootID, onceDone, procFS, bootFile,
                   bootReads, data, ret, aborted, calls, pair>>

\* bootIDOnce.Do: with the mutex held, run the function only if done is still 0
Check(c) ==
    /\ ~aborted /\ pc[c] = "check"
    /\ pc' = [pc EXCEPT ![c] = IF OnceMustRun(onceDone) THEN "fs" ELSE "unlock"]
    /\ UNCHANGED <<ps, kin, last, parses, bootID, onceDone, onceLock, procFS, bootFile,
                   bootReads, data, ret, aborted, calls, pair>>

\* ReadFile calls FS(): the sanity checks of /proc end the process or set procFS
MountFS(c) ==
    /\ ~aborted /\ pc[c] = "fs"
    /\ IF bootFile.fsOK
       THEN /\ procFS' = "/proc"
            /\ pc' = [pc EXCEPT ![c] = "read"]
            /\ UNCHANGED aborted
       ELSE /\ aborted' = TRUE
            /\ UNCHANGED <<procFS, pc>>
    /\ UNCHANGED <<ps, kin, last, parses, bootID, onceDone, onceLock, bootFile,
                   bootReads, data, ret, calls, pair>>

\* ReadFile reads boot_id: the bytes, or an error and the function panics
Read(c) ==
    /\ ~aborted /\ pc[c] = "read"
    /\ bootReads' = bootReads + 1
    /\ IF bootFile.err
       THEN /\ pc' = [pc EXCEPT ![c] = "panic"]
            /\ UNCHANGED data
       ELSE /\ data' = [data EXCEPT ![c] = bootFile.bytes]
            /\ pc' = [pc EXCEPT ![c] = "assign"]
    /\ UNCHANGED <<ps, kin, last, parses, bootID, onceDone, onceLock, procFS, bootFile,
                   ret, aborted, calls, pair>>

\* bootID = strings.TrimSpace(string(data))
Assign(c) ==
    /\ ~aborted /\ pc[c] = "assign"
    /\ bootID' = TrimSpace(data[c])
    /\ pc' = [pc EXCEPT ![c] = "store"]
    /\ UNCHANGED <<ps, kin, last, parses, onceDone, onceLock, procFS, bootFile,
                   bootReads, data, ret, aborted, calls, pair>>

\* the deferred atomic store of done, after the function returned or panicked
Store(c) ==
    /\ ~aborted /\ pc[c] \in {"store", "panic"}
    /\ onceDone' = TRUE
    /\ pc' = [pc EXCEPT ![c] = IF pc[c] = "store" THEN "unlock" ELSE "panicunlock"]
    /\ UNCHANGED <<ps, kin, last, parses, bootID, onceLock, procFS, bootFile,
                   bootReads, data, ret, aborted, calls, pair>>

\* the deferred o.m.Unlock()
Unlock(c) ==
    /\ ~aborted /\ pc[c] \in {"unlock", "panicunlock"}
    /\ onceLock' = 0
    /\ pc' = [pc EXCEPT ![c] = IF pc[c] = "unlock" THEN "ret" ELSE "crash"]
    /\ UNCHANGED <<ps, kin, last, parses, bootID, onceDone, procFS, bootFile,
                   bootReads, data, ret, aborted, calls, pair>>

\* the panic, which nothing recovers, ends the process
Crash(c) ==
    /\ ~aborted /\ pc[c] = "crash"
    /\ aborted' = TRUE
    /\ UNCHANGED <<ps, kin, last, parses, bootID, onceDone, onceLock, procFS, bootFile,
                   bootReads, pc, data, ret, calls, pair>>

\* return bootID
Return(c) ==
    /\ ~aborted /\ pc[c] = "ret"
    /\ ret' = [ret EXCEPT ![c] = bootID]
    /\ pc' = [pc EXCEPT ![c] = "done"]
    /\ UNCHANGED <<ps, kin, last, parses, bootID, onceDone, onceLock, procFS, bootFile,
                   bootReads, data, aborted, calls, pair>>

NextBoot ==
    \E c \in Callers :
        \/ Call(c) \/ Load(c) \/ Lock(c) \/ Check(c) \/ MountFS(c) \/ Read(c)
        \/ Assign(c) \/ Store(c) \/ Unlock(c) \/ Crash(c) \/ Return(c)

SpecBoot == Init /\ [][NextBoot]_vars

----------------------------------------------------------------------------
(* UniqueID as a function of the three values it hashes *)

\* the boot identifiers of two boots
BootA == TrimSpace(BootRaw)
BootB == TrimSpace(BootRawB)

\* (boot id, start stack, start time) triples
Triples ==
    [boot : {BootA, BootB},
     ss : {Zero64, <<1, 0, 0, 0>>, ParseUint(TokStack, 0, 64).val},
     st : {Zero64, <<1, 0, 0, 0>>, ParseUint(Tok300, 0, 64).val}]

InitPair ==
    /\ InitCommon
    /\ bootFile = [fsOK |-> TRUE, err |-> FALSE, bytes |-> BootRaw]
    /\ pair \in [a : Triples, b : Triples, ta : {<<>>}, tb : {<<>>}]

\* the token of the first triple
HashFirst ==
    /\ pair.ta = <<>>
    /\ pair' = [pair EXCEPT !.ta = TokenOf(pair.a.boot, pair.a.ss, pair.a.st)]
    /\ UNCHANGED <<ps, kin, last, parses, bootID, onceDone, onceLock, procFS, bootFile,
                   bootReads, pc, data, ret, aborted, calls>>

\* the token of the second triple
HashSecond ==
    /\ pair.tb = <<>>
    /\ pair' = [pair EXCEPT !.tb = TokenOf(pair.b.boot, pair.b.ss, pair.b.st)]
    /\ UNCHANGED <<ps, kin, last, parses, bootID, onceDone, onceLock, procFS, bootFile,
                   bootReads, pc, data, ret, aborted, calls>>

NextPair == HashFirst \/ HashSecond

SpecPair == InitPair /\ [][NextPair]_vars

----------------------------------------------------------------------------
(* What the documentation asks for, stated apart from the code *)

DecimalDigits == {"0", "1", "2", "3", "4", "5", "6", "7", "8", "9"}

\* the value of a string of decimal digits, digit by digit; ok is FALSE when the
\* value does not fit in 64 bits
RECURSIVE DecimalFold(_, _, _)
DecimalFold(s, i, n) ==
    IF i > Len(s) THEN [ok |-> TRUE, val |-> n]
    ELSE Let(MulAdd(n, 10, DigitVal(s[i])), LAMBDA m :
             IF m.carry > 0 THEN [ok |-> FALSE, val |-> Zero64]
             ELSE DecimalFold(s, i + 1, m.val))

\* a token read as a decimal integer of a field that is signed or not and bitSize
\* wide: ok says that it is one, within the field's range
Decimal(tok, signed, bitSize) ==
    Let(IF signed /\ tok # <<>> /\ tok[1] \in {"+", "-"} THEN Tail(tok) ELSE tok,
        LAMBDA digits :
        IF digits = <<>> \/ \E i \in 1..Len(digits) : digits[i] \notin DecimalDigits
        THEN [ok |-> FALSE, neg |-> FALSE, mag |-> Zero64]
        ELSE Let(DecimalFold(digits, 1, Zero64), LAMBDA v :
             Let(signed /\ tok[1] = "-", LAMBDA neg :
                 IF ~v.ok \/ ~FitsUnsigned(v.val, bitSize)
                    \/ (signed /\ AtLeastCutoff(v.val, bitSize)
                        /\ ~(neg /\ IsCutoff(v.val, bitSize)))
                 THEN [ok |-> FALSE, neg |-> FALSE, mag |-> Zero64]
                 ELSE [ok |-> TRUE, neg |-> neg /\ v.val # Zero64, mag |-> v.val])))

\* a number as the kernel prints it: decimal, no sign, no leading zero, in range
KernelNumber(tok, signed, bitSize) ==
    /\ Decimal(tok, signed, bitSize).ok
    /\ tok[1] \in DecimalDigits
    /\ (Len(tok) > 1 => tok[1] # "0")

\* the status line of process k is one the kernel emits
KernelValid(k) ==
    /\ KernelNumber(k.pid, TRUE, 32)
    /\ KernelNumber(k.ppid, TRUE, 32)
    /\ KernelNumber(k.st, FALSE, 64)
    /\ KernelNumber(k.ss, FALSE, 64)

\* the record in ps was read from a status line the kernel emits
FromKernel == ps.present /\ kin.kernel /\ KernelValid(kin.k)

\* the segments of s between separators, without one trailing empty segment
Segments(s, sep) ==
    Let(Split(s, sep), LAMBDA segs :
        IF segs[Len(segs)] = <<>> THEN SubSeq(segs, 1, Len(segs) - 1) ELSE segs)

\* a cgroup line split on its first two colons only
FirstColon(t) == IndexFrom(t, ":", 0)
SecondColon(t) == IndexFrom(t, ":", FirstColon(t) + 1)
CgroupLineOK(t) ==
    /\ FirstColon(t) >= 0 /\ SecondColon(t) >= 0
    /\ Decimal(Slice(t, 0, FirstColon(t)), TRUE, 64).ok
DocumentedID(t) == Decimal(Slice(t, 0, FirstColon(t)), TRUE, 64)
DocumentedControllers(t) == Split(Slice(t, FirstColon(t) + 1, SecondColon(t)), ",")
DocumentedPath(t) == Slice(t, SecondColon(t) + 1, Len(t))
SplitAsDocumented(rec, t) ==
    /\ rec.ID.neg = DocumentedID(t).neg /\ rec.ID.mag = DocumentedID(t).mag
    /\ rec.Controllers = DocumentedControllers(t)
    /\ rec.Path = DocumentedPath(t)

\* the records ContainerID scans for the content it read
RecordsOf(bytes) == CgroupsOf(ReadOK(bytes))

\* the paths among the records that begin with /docker, in order
DockerIndexes(recs) == {i \in 1..Len(recs) : HasPrefix(recs[i].Path, DockerPrefix)}
FirstDockerPath(recs) ==
    recs[CHOOSE i \in DockerIndexes(recs) : \A j \in DockerIndexes(recs) : i <= j].Path

\* the token in the position an accessor reads, or <<>> when the line is too short
TokenAt(i) == IF Len(ps.statFields) >= i THEN ps.statFields[i] ELSE <<>>
HasTokenAt(i) == ps.present /\ Len(ps.statFields) >= i

----------------------------------------------------------------------------
(* The claims *)

\* C1: UniqueID hashes the boot identity bytes, then the start stack as 8 little-endian
\* bytes, then the start time as 8 little-endian bytes; so two triples that differ in
\* exactly one of boot id, start stack and start time get different tokens.
DiffersInOne(a, b) ==
    Cardinality({f \in {"boot", "ss", "st"} : a[f] # b[f]}) = 1
C1_HashesBootStackTime ==
    /\ pair.ta # <<>> =>
         pair.ta = Sha256Hex(BytesOf(pair.a.boot) \o LittleEndian8(pair.a.ss)
                             \o LittleEndian8(pair.a.st))
    /\ (pair.ta # <<>> /\ pair.tb # <<>> /\ DiffersInOne(pair.a, pair.b)) =>
         pair.ta # pair.tb

\* C2: however the callers of BootID interleave, the boot_id file is read exactly once,
\* every call that returns gives the same trimmed string, and no call returns while
\* another caller is still initialising.
Initialising(c) == pc[c] \in {"fs", "read", "assign", "store"}
C2_BootIDOnce ==
    /\ bootReads <= 1
    /\ \A c \in Callers :
         pc[c] = "done" =>
           /\ bootReads = 1
           /\ onceDone
           /\ ~bootFile.err => ret[c] = TrimSpace(bootFile.bytes)
           /\ \A d \in Callers : pc[d] = "done" => ret[d] = ret[c]
           /\ \A d \in Callers : ~Initialising(d)

\* C2 happens: a caller has returned the trimmed boot id while another, which
\* passed the fast path before the initialisation ended, holds the mutex after it
C2_Witness ==
    \E c, d \in Callers :
        /\ c # d
        /\ pc[c] = "done" /\ ret[c] = BootB /\ bootFile.bytes = BootRawB
        /\ pc[d] = "check" /\ onceDone

\* C3: for a status line as the kernel emits it, whatever the command name holds,
\* ParentPID() is field 4, StartTime() field 22 and StartStack() field 28.
C3_FieldPositions ==
    FromKernel =>
      /\ last.op = "ParentPID" =>
           last.out = "ret" /\ last.val.mag = Decimal(kin.k.ppid, TRUE, 32).mag
      /\ last.op = "StartTime" =>
           last.out = "ret" /\ last.val = Decimal(kin.k.st, FALSE, 64).mag
      /\ last.op = "StartStack" =>
           last.out = "ret" /\ last.val = Decimal(kin.k.ss, FALSE, 64).mag

\* C4: for a kernel status line whose command name holds no parenthesis, Command()
\* is exactly what stood between the parentheses of field 2.
NoParens(comm) == \A i \in 1..Len(comm) : comm[i] \notin ParenCutset
C4_CommandRoundTrip ==
    (FromKernel /\ NoParens(kin.k.comm) /\ last.op = "Command") =>
        last.out = "ret" /\ last.val = kin.k.comm

\* C5: CommandLine returns every NUL-separated segment of a readable cmdline in
\* order and drops only one trailing empty segment.
C5_AllArguments ==
    (last.op = "CommandLine" /\ ~last.readErr) =>
        last.out = "ret" /\ last.val = Segments(last.input, NUL)

\* C6: for a readable cgroup file of lines id:controllers:path, Cgroups returns one
\* record per line in order, each line split on its first two colons only.
C6_CgroupRecords ==
    (last.op = "Cgroups" /\ ~last.readErr
       /\ \A t \in {Segments(last.input, NL)[i] : i \in 1..Len(Segments(last.input, NL))} :
            CgroupLineOK(t)) =>
        /\ last.out = "ret"
        /\ Len(last.val) = Len(Segments(last.input, NL))
        /\ \A i \in 1..Len(Segments(last.input, NL)) :
             SplitAsDocumented(last.val[i], Segments(last.input, NL)[i])

\* C7: for every sequence of cgroup records ContainerID returns a string: the third
\* component of the first path that begins with /docker, or the empty string when
\* no path does.
C7_ContainerID ==
    (last.op = "ContainerID" /\ ~last.readErr /\ RecordsOf(last.input).out = "ret") =>
        /\ last.out = "ret"
        /\ DockerIndexes(RecordsOf(last.input).val) = {} => last.val = <<>>
        /\ DockerIndexes(RecordsOf(last.input).val) # {} =>
             last.val = Split(FirstDockerPath(RecordsOf(last.input).val), "/")[3]

\* C8: when the read of the per-process file fails, CommandLine and Cgroups return
\* nil, ContainerID and UniqueID the empty string and Stat no record; nothing is
\* parsed, the boot id is not read and the process goes on.
C8_ReadFailure ==
    last.readErr =>
        /\ last.op \in {"CommandLine", "Cgroups", "ContainerID", "Stat", "FsUniqueID"}
        /\ last.out = "ret"
        /\ last.val = <<>>
        /\ last.derived = 0
        /\ last.reads = 0
        /\ ~aborted
        /\ last.op = "Stat" => ~ps.present

\* C8 happens: UniqueID of a process whose stat file cannot be read, as the second
\* call of the behaviour, with no record held and the boot id still unread
C8_Witness ==
    /\ last.op = "FsUniqueID" /\ last.readErr
    /\ calls = 2 /\ ~ps.present
    /\ ~onceDone /\ bootReads = 0

\* C9: a token in the position of the pid, parent pid, start time, start stack or
\* cgroup id that is no decimal integer within the field's range ends in the fatal
\* outcome; the accessor never returns a number for it.
C9_MalformedIsFatal ==
    /\ (last.op = "PID" /\ HasTokenAt(1) /\ ~Decimal(TokenAt(1), TRUE, 32).ok) =>
         last.out = "fatal"
    /\ (last.op = "ParentPID" /\ HasTokenAt(4) /\ ~Decimal(TokenAt(4), TRUE, 32).ok) =>
         last.out = "fatal"
    /\ (last.op = "StartTime" /\ HasTokenAt(22) /\ ~Decimal(TokenAt(22), FALSE, 64).ok) =>
         last.out = "fatal"
    /\ (last.op = "StartStack" /\ HasTokenAt(28) /\ ~Decimal(TokenAt(28), FALSE, 64).ok) =>
         last.out = "fatal"
    /\ (last.op = "Cgroups" /\ ~last.readErr /\ last.input # <<>>
          /\ ~Decimal(Split(Segments(last.input, NL)[1], ":")[1], TRUE, 64).ok) =>
         last.out = "fatal"

\* C10: on one record every field is derived from its raw token at most once,
\* whatever its value (0 and the empty command name included).
C10_DerivedOnce == \A f \in FieldNames : parses[f] <= 1

====
